---- MODULE Spec2Model ----
(***************************************************************************)
(* Model of the retrieval-augmented query generation pipeline of           *)
(* operato-agent:                                                          *)
(*   - IntegratedQueryGenerator (dsl_registry/integrated_query_generator)  *)
(*     detect_protocol, search_relevant_context, generate_graphql_query,   *)
(*     generate_rest_request, generate_query;                              *)
(*   - IntegratedAPIGenerator (tests/test_integrated_api_generator)        *)
(*     search_relevant_apis, detect_api_type, generate_graphql_query,      *)
(*     generate_openapi_request, generate_api_call;                        *)
(*   - rag/retriever: translate_to_english, retrieve_relevant_dsl.         *)
(* The LLM, the embedding model and the vector store are external: an LLM  *)
(* reply is an input chosen from a bounded set, an upstream failure is a   *)
(* choice, and the similarity search is a fixed ranking of the index.      *)
(* Confidence values are counted in tenths (5 is 0.5, 10 is 1.0).          *)
(***************************************************************************)
EXTENDS Integers, Sequences, FiniteSets, TLC

(***************************************************************************)
(* Bounds of the model.                                                    *)
(***************************************************************************)
MaxDocs == 4

(***************************************************************************)
(* Python values.  A scalar is a string, a number or None; a parsed JSON   *)
(* document is a dict (items: key -> scalar), a list or a bare scalar.     *)
(***************************************************************************)
Str(s) == [ty |-> "str", s |-> s, n |-> 0]
Num(n) == [ty |-> "num", s |-> "", n |-> n]
None == [ty |-> "null", s |-> "", n |-> 0]

NoItems == [key \in {} |-> None]
Dict(items) == [ty |-> "dict", items |-> items]
List == [ty |-> "list", items |-> NoItems]
NoValue == [ty |-> "none", items |-> NoItems]
JsonString == [ty |-> "str", items |-> NoItems]

(***************************************************************************)
(* Text of an LLM reply.  form says how the text is laid out: "json" is    *)
(* a bare JSON document, "fenced" is a JSON document wrapped in a          *)
(* ```json fence (the layout the classification prompt itself shows),      *)
(* "prose" is free text.  pad says whether the text carries leading or     *)
(* trailing whitespace.                                                    *)
(***************************************************************************)
Text(form, val, pad) == [form |-> form, val |-> val, pad |-> pad]
NoText == Text("none", NoValue, FALSE)

\* json.loads: only a bare JSON document parses (surrounding whitespace is
\* allowed); anything else raises json.JSONDecodeError.
json_loads(text) ==
    IF text.form = "json"
    THEN [ok |-> TRUE, val |-> text.val]
    ELSE [ok |-> FALSE, val |-> NoValue]

\* str.strip
strip(text) == [text EXCEPT !.pad = FALSE]

(***************************************************************************)
(* Outcomes of a call: a returned value or a raised exception.             *)
(***************************************************************************)
Return(v) == [raised |-> FALSE, exc |-> "", val |-> v]
Raise(e) == [raised |-> TRUE, exc |-> e, val |-> NoValue]

\* obj[key] on a parsed JSON value
Subscript(obj, key) ==
    IF obj.ty = "dict"
    THEN IF key \in DOMAIN obj.items
         THEN [raised |-> FALSE, exc |-> "", val |-> obj.items[key]]
         ELSE [raised |-> TRUE, exc |-> "KeyError", val |-> None]
    ELSE [raised |-> TRUE, exc |-> "TypeError", val |-> None]

\* f"{value:.2f}": numbers format, a str raises ValueError, None raises TypeError
FormatFloat(value) ==
    IF value.ty = "num" THEN ""
    ELSE IF value.ty = "str" THEN "ValueError"
    ELSE "TypeError"

(***************************************************************************)
(* The replies the classification LLM may give.                            *)
(***************************************************************************)
ProtocolValues == {Str("graphql"), Str("rest"), Str("openapi")}
ConfidenceValues == {Num(0 - 1), Num(0), Num(9), Num(10), Num(11), Str("high"), None}
ReasoningValues == {Str("why")}
ClassificationKeys == {"protocol", "reasoning", "confidence"}

ValuesOf(key) ==
    IF key = "protocol" THEN ProtocolValues
    ELSE IF key = "confidence" THEN ConfidenceValues
    ELSE ReasoningValues

ClassificationDicts ==
    UNION { { Dict(f) : f \in { g \in [keys -> ProtocolValues \cup ConfidenceValues \cup ReasoningValues] :
                                   \A key \in keys : g[key] \in ValuesOf(key) } }
            : keys \in SUBSET ClassificationKeys }

WellFormed ==
    Dict([key \in ClassificationKeys |->
            IF key = "protocol" THEN Str("rest")
            ELSE IF key = "confidence" THEN Num(9) ELSE Str("why")])

ClassificationReplies ==
    { Text("json", d, FALSE) : d \in ClassificationDicts \cup {List, JsonString} }
    \cup { Text("fenced", WellFormed, FALSE), Text("prose", NoValue, FALSE) }

(***************************************************************************)
(* The Vector Index: the documents in insertion order.  A document is      *)
(* identified by its position; type is its metadata 'type' (the index      *)
(* builder writes 'graphql' or 'openapi'), vec stands for its embedding.   *)
(***************************************************************************)
DocTypes == {"graphql", "openapi"}
Vecs == {0, 1}
Docs == [type : DocTypes, vec : Vecs]
Indexes == UNION { [1..n -> Docs] : n \in 0..MaxDocs }

Utterances == {"board", "scenario"}

\* The embedding of a search text: a fixed function of the text.
Embed(search_query) ==
    LET base == IF search_query.text = "board" THEN 0 ELSE 1
        shift == IF search_query.suffix = "rest" THEN 1 ELSE 0
    IN (base + shift) % 2

Distance(a, b) == IF a < b THEN b - a ELSE a - b

\* Chroma.similarity_search(query, k): the k documents nearest to the query's
\* embedding, nearest first, ties in insertion order.
similarity_search(idx, search_query, k) ==
    LET q == Embed(search_query)
        Before(i, j) == \/ Distance(idx[i].vec, q) < Distance(idx[j].vec, q)
                        \/ /\ Distance(idx[i].vec, q) = Distance(idx[j].vec, q)
                           /\ i < j
        rank == [i \in 1..Len(idx) |-> Cardinality({j \in 1..Len(idx) : Before(j, i)}) + 1]
        n == IF k < Len(idx) THEN k ELSE Len(idx)
    IN [r \in 1..n |-> CHOOSE i \in 1..Len(idx) : rank[i] = r]

(***************************************************************************)
(* IntegratedQueryGenerator                                                *)
(***************************************************************************)
FallbackConfidence == 5
DefaultK == 5

FallbackResult ==
    Dict([key \in ClassificationKeys |->
            IF key = "protocol" THEN Str("graphql")
            ELSE IF key = "confidence" THEN Num(FallbackConfidence)
            ELSE Str("JSON parse failed, default used")])

\* An LLM call either raises (network, auth, rate limit) or returns a text.
Response(failed, content) == [failed |-> failed, content |-> content]

detect_protocol_NoFallback(response) ==
    IF response.failed THEN Raise("UpstreamError")
    ELSE LET parsed == json_loads(response.content)
         IN IF parsed.ok THEN Return(parsed.val) ELSE Raise("JSONDecodeError")

\* detect_protocol: one LLM call; the parsed reply is returned as it is, a
\* reply that does not parse gives the fallback.
detect_protocol(response) ==
    IF response.failed THEN Raise("UpstreamError")
    ELSE LET parsed == json_loads(response.content)
         IN IF parsed.ok THEN Return(parsed.val) ELSE Return(FallbackResult)

search_relevant_context_NoFilter(idx, user_query, protocol, k) ==
    LET search_query == IF protocol = Str("graphql")
                        THEN [text |-> user_query, suffix |-> "graphql"]
                        ELSE [text |-> user_query, suffix |-> "rest"]
    IN similarity_search(idx, search_query, k)

search_relevant_context_FilterFirst(idx, user_query, protocol, k) ==
    LET search_query == IF protocol = Str("graphql")
                        THEN [text |-> user_query, suffix |-> "graphql"]
                        ELSE [text |-> user_query, suffix |-> "rest"]
        results == similarity_search(idx, search_query, Len(idx))
    IN SelectSeq(results, LAMBDA i : Str(idx[i].type) = protocol)

\* search_relevant_context: the similarity search on the utterance with a
\* protocol suffix, then the filter on the metadata 'type'.
search_relevant_context(idx, user_query, protocol, k) ==
    LET search_query == IF protocol = Str("graphql")
                        THEN [text |-> user_query, suffix |-> "graphql"]
                        ELSE [text |-> user_query, suffix |-> "rest"]
        results == similarity_search(idx, search_query, k)
    IN SelectSeq(results, LAMBDA i : Str(idx[i].type) = protocol)

(***************************************************************************)
(* The replies the synthesis LLM may give: a query in free text, a JSON    *)
(* request (with or without its method and url), a JSON list, a fenced     *)
(* JSON request.                                                           *)
(***************************************************************************)
RequestKeys == {"method", "url"}
RequestDicts ==
    { Dict([key \in keys |-> IF key = "method" THEN Str("GET") ELSE Str("/scenarios")])
        : keys \in SUBSET RequestKeys }
FullRequest == Dict([key \in RequestKeys |-> IF key = "method" THEN Str("GET") ELSE Str("/scenarios")])

SynthesisReplies ==
    { Text("json", d, FALSE) : d \in RequestDicts \cup {List} }
    \cup { Text("prose", NoValue, pad) : pad \in BOOLEAN }
    \cup { Text("fenced", FullRequest, TRUE) }

FailedResponse == Response(TRUE, NoText)
NoResponse == Response(FALSE, NoText)
ClassificationResponses == {FailedResponse} \cup { Response(FALSE, t) : t \in ClassificationReplies }
SynthesisResponses == {FailedResponse} \cup { Response(FALSE, t) : t \in SynthesisReplies }

\* The prompt of an LLM call: the template and what is substituted in it.
Prompt(template, user_query, context) ==
    [template |-> template, user_query |-> user_query, context |-> context]

\* generate_graphql_query: the contents of all context documents joined, one
\* LLM call with the GraphQL template, the reply stripped.
generate_graphql_query(user_query, context_docs, response) ==
    IF response.failed THEN Raise("UpstreamError")
    ELSE [raised |-> FALSE, exc |-> "", val |-> strip(response.content)]

\* generate_rest_request: the same with the REST template; the reply is
\* returned as a stripped string, it is not parsed.
generate_rest_request(user_query, context_docs, response) ==
    IF response.failed THEN Raise("UpstreamError")
    ELSE [raised |-> FALSE, exc |-> "", val |-> strip(response.content)]

\* Lines 157-161 of generate_query: the reads of the classification result
\* and the formatted prints; the first exception they raise, "" when none.
unpack(protocol_result) ==
    LET p == Subscript(protocol_result, "protocol")
        c == Subscript(protocol_result, "confidence")
        r == Subscript(protocol_result, "reasoning")
    IN IF p.raised THEN p.exc
       ELSE IF c.raised THEN c.exc
       ELSE IF FormatFloat(c.val) # "" THEN FormatFloat(c.val)
       ELSE IF r.raised THEN r.exc
       ELSE ""

\* context_sources of the result: source, type and a content preview of
\* every context document.
context_sources(idx, context_docs) ==
    [j \in 1..Len(context_docs) |->
        [source |-> context_docs[j], type |-> idx[context_docs[j]].type,
         content_preview |-> context_docs[j]]]

NoOutcome == Return(NoValue)
NoResult ==
    [user_query |-> "", detected_protocol |-> None, confidence |-> None,
     reasoning |-> None, generated_query |-> NoText, context_sources |-> << >>]

VARIABLES
    index,            \* the Vector Index
    pc,               \* position of the generate_query invocation
    steps,            \* the positions this invocation has passed through
    user_query,       \* generate_query's argument
    protocol_result,  \* what detect_protocol returned (or raised)
    protocol,         \* protocol_result["protocol"]
    confidence,       \* protocol_result["confidence"]
    context_docs,     \* what search_relevant_context returned
    generated_query,  \* what the synthesizer returned
    result,           \* the Generation Result
    exc,              \* the exception that ended the invocation, "" when none
    detect_response,  \* the LLM's response to the classification prompt
    synth_response,   \* the LLM's response to the synthesis prompt
    llm_calls,        \* the prompts sent to the LLM by this invocation
    call,             \* the latest direct retrieval call and what it gave
    prev,             \* the call before it, when it had the same arguments
    apc,              \* position of the generate_api_call invocation
    api_query,        \* generate_api_call's argument
    llm_ready,        \* IntegratedAPIGenerator.llm is set
    vectorstore_ready,\* IntegratedAPIGenerator.vectorstore is set
    relevant_apis,    \* what search_relevant_apis returned
    api_type,         \* what detect_api_type returned
    api_response,     \* the LLM's response to the generation prompt
    api_result,       \* what generate_api_call returned
    api_exc,          \* the exception that ended generate_api_call, "" when none
    api_llm_calls,    \* the prompts generate_api_call sent to the LLM
    reqs,             \* the locals of each of the concurrent generate_query requests
    srv,              \* the deployment: its configuration, the web app, the CLI, a request
    dsl_dir,          \* the DSL directory: per file, the record written and the YAML text
    chroma_db,        \* the collection build_index persists: per id, the chunk stored
    loaded,           \* what the latest build_index run loaded: per file, record and chunk
    openapi_dir,      \* the OpenAPI DSL directory: the names of its files and the
                      \* operations list the main DSL file holds
    chroma,           \* the collection _create_vectorstore persists: per source, the
                      \* number of documents and their metadata 'type'
    ext,              \* a call of extract_type_definition: the schema, the stack of
                      \* its recursion, visited, and how often each type was expanded
    terms             \* a run of translate_pipeline: the glossaries, the input text
                      \* and what each stage made of it

gqvars == <<pc, steps, user_query, protocol_result, protocol, confidence,
            context_docs, generated_query, result, exc, detect_response,
            synth_response, llm_calls>>

rtvars == <<call, prev>>

apivars == <<apc, api_query, llm_ready, vectorstore_ready, relevant_apis, api_type,
             api_response, api_result, api_exc, api_llm_calls>>

ccvars == <<reqs>>

srvvars == <<srv>>

buildvars == <<dsl_dir, chroma_db, loaded>>

ibvars == <<openapi_dir, chroma>>

scriptvars == <<ext, terms>>

othervars == <<ccvars, srvvars, buildvars, ibvars, scriptvars>>

vars == <<index, gqvars, rtvars, apivars, othervars>>

(***************************************************************************)
(* rag/retriever                                                           *)
(***************************************************************************)
RetrieverK == 3
EnglishTexts == {"board", "scenario"}

\* The replies of the translation LLM: an English text, one of them with
\* surrounding whitespace.  Nothing ties the reply to the utterance.
TranslationResponses ==
    {Response(TRUE, [text |-> "", pad |-> FALSE])}
    \cup { Response(FALSE, [text |-> t, pad |-> t = "board"]) : t \in EnglishTexts }

\* translate_to_english: one LLM call, the reply stripped.
translate_to_english(response) ==
    IF response.failed
    THEN [raised |-> TRUE, exc |-> "UpstreamError", val |-> ""]
    ELSE [raised |-> FALSE, exc |-> "", val |-> strip(response.content).text]

retrieve_relevant_dsl_SkipSeen(idx, translated_input, k) ==
    SelectSeq(similarity_search(idx, [text |-> translated_input, suffix |-> ""], k),
              LAMBDA i : \A j \in 1..Len(call.docs) : call.docs[j] # i)

\* retrieve_relevant_dsl: the similarity search on the translated input; one
\* dict per document found, in the order found.
retrieve_relevant_dsl(idx, translated_input, k) ==
    similarity_search(idx, [text |-> translated_input, suffix |-> ""], k)

\* The values of k the callers pass: a small one and the function's default.
Ks(default) == {2, default}

Call(fn, u, p, k, translated, raised, docs) ==
    [fn |-> fn, user_query |-> u, protocol |-> p, k |-> k,
     translated |-> translated, raised |-> raised, docs |-> docs]
NoCall == Call("", "", None, 0, "", FALSE, << >>)

(***************************************************************************)
(* IntegratedAPIGenerator                                                  *)
(***************************************************************************)
ApiTopK == 5
ContextTop == 3

\* A sequence's first n elements: seq[:n]
Head_n(seq, n) == SubSeq(seq, 1, IF n < Len(seq) THEN n ELSE Len(seq))

\* search_relevant_apis: the similarity search on the query as it is; the
\* empty list when there is no vector store.
search_relevant_apis(idx, has_vectorstore, query, top_k) ==
    IF has_vectorstore
    THEN similarity_search(idx, [text |-> query, suffix |-> ""], top_k)
    ELSE << >>

detect_api_type_TieIsGraphql(idx, search_results) ==
    LET graphql_count == Cardinality({j \in 1..Len(search_results) :
                                        idx[search_results[j]].type = "graphql"})
        openapi_count == Cardinality({j \in 1..Len(search_results) :
                                        idx[search_results[j]].type = "openapi"})
    IN IF openapi_count > graphql_count THEN [raised |-> FALSE, exc |-> "", val |-> "openapi"]
       ELSE [raised |-> FALSE, exc |-> "", val |-> "graphql"]

\* detect_api_type: the type most results carry; on a tie the type of the
\* first result (an IndexError when there is none).
detect_api_type(idx, search_results) ==
    LET graphql_count == Cardinality({j \in 1..Len(search_results) :
                                        idx[search_results[j]].type = "graphql"})
        openapi_count == Cardinality({j \in 1..Len(search_results) :
                                        idx[search_results[j]].type = "openapi"})
    IN IF graphql_count > openapi_count THEN [raised |-> FALSE, exc |-> "", val |-> "graphql"]
       ELSE IF openapi_count > graphql_count THEN [raised |-> FALSE, exc |-> "", val |-> "openapi"]
       ELSE IF Len(search_results) = 0 THEN [raised |-> TRUE, exc |-> "IndexError", val |-> ""]
       ELSE [raised |-> FALSE, exc |-> "", val |-> idx[search_results[1]].type]

\* A returned request object: its Python type, its keys and, under
\* raw_response, the reply text it carries.
Request(ty, keys, raw) == [ty |-> ty, keys |-> keys, raw |-> raw]
NoRequest == Request("none", {}, NoText)
ErrorComment == Text("error_comment", NoValue, FALSE)

\* IntegratedAPIGenerator.generate_graphql_query: a comment string without
\* an LLM; else one LLM call, the reply stripped; any exception of the call
\* becomes a comment string.
api_generate_graphql_query(has_llm, response) ==
    IF ~has_llm THEN ErrorComment
    ELSE IF response.failed THEN ErrorComment
    ELSE strip(response.content)

\* IntegratedAPIGenerator.generate_openapi_request: an error object without
\* an LLM; else one LLM call, the stripped reply parsed as JSON and returned
\* as parsed; a reply that does not parse gives an error object with the
\* reply under raw_response; any other exception gives an error object.
generate_openapi_request(has_llm, response) ==
    IF ~has_llm THEN Request("dict", {"error"}, NoText)
    ELSE IF response.failed THEN Request("dict", {"error"}, NoText)
    ELSE LET parsed == json_loads(strip(response.content))
         IN IF parsed.ok
            THEN Request(parsed.val.ty, DOMAIN parsed.val.items, NoText)
            ELSE Request("dict", {"error", "raw_response"}, strip(response.content))

\* What generate_api_call returns: kind "not_found" is {"error", "query"},
\* kind "graphql" is {"type", "query", "relevant_apis"}, kind "openapi" is
\* {"type", "request", "relevant_apis"}.
ApiResult(kind, q, gql, req, apis) ==
    [kind |-> kind, user_query |-> q, query |-> gql, request |-> req, relevant_apis |-> apis]
NoApiResult == ApiResult("none", "", NoText, NoRequest, << >>)

AC_Idle ==
    /\ apc = "idle"
    /\ api_query = ""
    /\ llm_ready = FALSE
    /\ vectorstore_ready = FALSE
    /\ relevant_apis = << >>
    /\ api_type = ""
    /\ api_response = NoResponse
    /\ api_result = NoApiResult
    /\ api_exc = ""
    /\ api_llm_calls = << >>

\* A generator is constructed (with or without an API key, with or without
\* a vector store on disk) and generate_api_call is called.
AC_Start ==
    /\ apc = "idle"
    /\ \E q \in Utterances : api_query' = q
    /\ \E has_llm \in BOOLEAN : llm_ready' = has_llm
    /\ \E has_vectorstore \in BOOLEAN : vectorstore_ready' = has_vectorstore
    /\ apc' = "start"
    /\ UNCHANGED <<index, gqvars, rtvars, othervars, relevant_apis, api_type, api_response,
                   api_result, api_exc, api_llm_calls>>

\* Lines 275-284: the search, the early return when nothing is found, the
\* type detection.  The search itself may fail upstream.
AC_Search ==
    /\ apc = "start"
    /\ \E failed \in BOOLEAN :
         LET found == search_relevant_apis(index, vectorstore_ready, api_query, ApiTopK)
             detected == detect_api_type(index, found)
         IN IF failed /\ vectorstore_ready
            THEN /\ api_exc' = "UpstreamError"
                 /\ apc' = "raised"
                 /\ UNCHANGED <<relevant_apis, api_type, api_result>>
            ELSE IF found = << >>
            THEN /\ relevant_apis' = found
                 /\ api_result' = ApiResult("not_found", api_query, NoText, NoRequest, << >>)
                 /\ apc' = "done"
                 /\ UNCHANGED <<api_type, api_exc>>
            ELSE IF detected.raised
            THEN /\ relevant_apis' = found
                 /\ api_exc' = detected.exc
                 /\ apc' = "raised"
                 /\ UNCHANGED <<api_type, api_result>>
            ELSE /\ relevant_apis' = found
                 /\ api_type' = detected.val
                 /\ apc' = "detected"
                 /\ UNCHANGED <<api_result, api_exc>>
    /\ UNCHANGED <<index, gqvars, rtvars, othervars, api_query, llm_ready, vectorstore_ready,
                   api_response, api_llm_calls>>

\* Lines 287-300: the generator of the detected type; the LLM is called
\* only when there is one.
AC_Generate ==
    /\ apc = "detected"
    /\ \E response \in (IF llm_ready THEN SynthesisResponses ELSE {NoResponse}) :
         /\ api_response' = response
         /\ api_llm_calls' =
               IF llm_ready
               THEN Append(api_llm_calls,
                           Prompt(IF api_type = "graphql" THEN "graphql" ELSE "openapi",
                                  api_query, Head_n(relevant_apis, ContextTop)))
               ELSE api_llm_calls
         /\ api_result' =
               IF api_type = "graphql"
               THEN ApiResult("graphql", "", api_generate_graphql_query(llm_ready, response),
                              NoRequest, Head_n(relevant_apis, ContextTop))
               ELSE ApiResult("openapi", "", NoText,
                              generate_openapi_request(llm_ready, response),
                              Head_n(relevant_apis, ContextTop))
    /\ apc' = "done"
    /\ UNCHANGED <<index, gqvars, rtvars, othervars, api_query, llm_ready, vectorstore_ready,
                   relevant_apis, api_type, api_exc>>

\* The caller has the result (or the exception).
AC_Finish ==
    /\ apc \in {"done", "raised"}
    /\ apc' = "idle"
    /\ api_query' = ""
    /\ llm_ready' = FALSE
    /\ vectorstore_ready' = FALSE
    /\ relevant_apis' = << >>
    /\ api_type' = ""
    /\ api_response' = NoResponse
    /\ api_result' = NoApiResult
    /\ api_exc' = ""
    /\ api_llm_calls' = << >>
    /\ UNCHANGED <<index, gqvars, rtvars, othervars>>

(***************************************************************************)
(* generate_query as a function of what one invocation is given: the       *)
(* index, the utterance, the LLM's two responses and whether the search    *)
(* fails.  It is the outcome of the invocation run on its own.             *)
(***************************************************************************)
Failure(e) == [raised |-> TRUE, exc |-> e, result |-> NoResult]

generate_query(idx, u, dresp, search_failed, sresp) ==
    LET protocol_result_ == detect_protocol(dresp)
    IN IF protocol_result_.raised THEN Failure(protocol_result_.exc)
       ELSE IF unpack(protocol_result_.val) # "" THEN Failure(unpack(protocol_result_.val))
       ELSE IF search_failed THEN Failure("UpstreamError")
       ELSE LET p == protocol_result_.val.items["protocol"]
                docs == search_relevant_context(idx, u, p, DefaultK)
                generated == IF p = Str("graphql")
                             THEN generate_graphql_query(u, docs, sresp)
                             ELSE generate_rest_request(u, docs, sresp)
            IN IF generated.raised THEN Failure(generated.exc)
               ELSE [raised |-> FALSE, exc |-> "",
                     result |-> [user_query |-> u,
                                 detected_protocol |-> p,
                                 confidence |-> protocol_result_.val.items["confidence"],
                                 reasoning |-> protocol_result_.val.items["reasoning"],
                                 generated_query |-> generated.val,
                                 context_sources |-> context_sources(idx, docs)]]

(***************************************************************************)
(* Two requests served at the same time by one generator (the web server   *)
(* runs a handler per request).  Each has its own locals; the generator's  *)
(* llm and vectorstore attributes are only read.                           *)
(***************************************************************************)
Requests == {1, 2}
Other(r) == CHOOSE o \in Requests : o # r
UtteranceOf(r) == IF r = 1 THEN "board" ELSE "scenario"

Reply(p) ==
    Text("json", Dict([key \in ClassificationKeys |->
                         IF key = "protocol" THEN Str(p)
                         ELSE IF key = "confidence" THEN Num(9) ELSE Str("why")]), FALSE)

ConcurrentClassificationResponses ==
    {FailedResponse, Response(FALSE, Reply("graphql")), Response(FALSE, Reply("openapi"))}
ConcurrentSynthesisResponses ==
    {FailedResponse, Response(FALSE, Text("prose", NoValue, TRUE))}

\* overlap records that the request started while the other one was being
\* served.
FreshLocals ==
    [pc |-> "idle", user_query |-> "", detect_response |-> NoResponse,
     protocol_result |-> NoOutcome, protocol |-> None, confidence |-> None,
     search_failed |-> FALSE, context_docs |-> << >>, synth_response |-> NoResponse,
     generated_query |-> NoText, result |-> NoResult, exc |-> "", overlap |-> FALSE]

InFlight(r) == reqs[r].pc \in {"start", "classify", "retrieve", "synthesize"}

(***************************************************************************)
(* Configuration and start-up.  settings_file says whether                 *)
(* config/settings.yaml exists, settings_key what it holds under           *)
(* llm.openai_api_key ("absent": no such key, "empty": null or "",         *)
(* "set"), env_key whether OPENAI_API_KEY is in the environment.           *)
(* app is the FastAPI application of main.py, ask its /ask request, cli    *)
(* the main() of integrated_query_generator, user_input the value the      *)
(* request bound to the synthesizer's user_input parameter.                *)
(***************************************************************************)
SettingsKeys == {"absent", "empty", "set"}

Undeployed ==
    [configured |-> FALSE, settings_file |-> FALSE, settings_key |-> "absent", env_key |-> FALSE,
     app |-> "down", ask |-> "none", exc |-> "", cli |-> "idle", user_input |-> ""]

\* No API key is to be found in the settings or in the environment.
MissingKey(d) == (~d.settings_file \/ d.settings_key # "set") /\ ~d.env_key

\* config/settings.py, run when main.py is imported: the settings file is
\* read; nothing in it is looked at.
load_settings(d) ==
    IF d.settings_file THEN "" ELSE "FileNotFoundError"

\* load_llm: the settings file is read again and settings["llm"]
\* ["openai_api_key"] is handed to ChatOpenAI, which takes the key of the
\* environment when it is given none and raises when there is none at all.
load_llm(d) ==
    IF ~d.settings_file THEN "FileNotFoundError"
    ELSE IF d.settings_key = "absent" THEN "KeyError"
    ELSE IF d.settings_key = "empty" /\ ~d.env_key THEN "ValidationError"
    ELSE ""

\* main() of integrated_query_generator, lines 198-216: the key of the
\* settings file when the file exists, else the key of the environment;
\* without a key main returns before a generator is constructed.
main_api_key(d) ==
    IF d.settings_file THEN d.settings_key = "set" ELSE d.env_key

\* The values that travel through ask_question, named by what they are:
\* the question (a str), the list retrieve_relevant_dsl returns, the
\* ChatOpenAI handle of load_llm, and None.  Only a dict has a get method.
HasGet(value) == value = "dict"

\* llm/query_generator.generate_graphql_query(user_input, dsl_chunk, llm=None),
\* lines 29-44: dsl_chunk.get(...) is evaluated first, then prompt | llm,
\* then the chain is invoked.
llm_generate_graphql_query(user_input, dsl_chunk, llm, failed) ==
    IF ~HasGet(dsl_chunk) THEN "AttributeError"
    ELSE IF llm = "None" THEN "TypeError"
    ELSE IF failed THEN "UpstreamError"
    ELSE ""

\* The parameters plan_query binds, planner.py line 6:
\* generate_graphql_query(dsl_context, llm), two positional arguments.
plan_query_binding(user_input, llm) ==
    [user_input |-> "dsl_context", dsl_chunk |-> llm, llm |-> "None"]

(***************************************************************************)
(* DSL Records, their YAML files and the chunks of rag/chunker.            *)
(* A Python string is a sequence of tokens; the token SEP is the text      *)
(* ", ".  A GraphQL name is a one-token string, never SEP.                 *)
(***************************************************************************)
SEP == ", "
Name(t) == <<t>>

\* dsl_data of generate_dsl: name, type, variables (the argument names in
\* order) and related_types.
Record(name, type, variables, related_types) ==
    [name |-> name, type |-> type, variables |-> variables, related_types |-> related_types]
NoRecord == Record(<< >>, "", << >>, << >>)

\* The files of the DSL directory are named type_name.yaml.
Files == {"query_a", "query_b"}

\* The records extraction writes, per file: argument and type names are
\* GraphQL names ("on" is one, and it is a YAML keyword).
ExtractedRecords(f) ==
    IF f = "query_a"
    THEN {Record(Name("a"), "query", <<Name("x"), Name("y")>>, <<Name("T")>>)}
    ELSE {Record(Name("b"), "query", << >>, << >>),
          Record(Name("b"), "query", <<Name("on")>>, <<Name("T")>>)}

\* A record put in the directory by other means, one of its variables
\* holding the separator.
ForeignRecords(f) ==
    IF f = "query_b"
    THEN {Record(Name("b"), "query", <<<<"x", SEP, "y">>>>, << >>)}
    ELSE {}

\* yaml.dump of a string: plain, or quoted when the plain text would be
\* read back as something else than a string.
YamlKeywords == {Name("on")}
Scalar(text) == [text |-> text, quoted |-> (text \in YamlKeywords \/ text = << >>)]

yaml_dump(dsl_data) ==
    [name |-> Scalar(dsl_data.name),
     type |-> dsl_data.type,
     variables |-> [i \in 1..Len(dsl_data.variables) |-> Scalar(dsl_data.variables[i])],
     related_types |-> [i \in 1..Len(dsl_data.related_types) |-> Scalar(dsl_data.related_types[i])]]
NoYaml == [name |-> Scalar(<< >>), type |-> "", variables |-> << >>, related_types |-> << >>]

\* yaml.safe_load of a scalar: a plain keyword is a bool, all else a str.
Resolve(scalar) ==
    IF ~scalar.quoted /\ scalar.text \in YamlKeywords
    THEN [ty |-> "bool", text |-> scalar.text]
    ELSE [ty |-> "str", text |-> scalar.text]
PyStr(text) == [ty |-> "str", text |-> text]

yaml_safe_load(doc) ==
    [name |-> Resolve(doc.name),
     type |-> doc.type,
     variables |-> [i \in 1..Len(doc.variables) |-> Resolve(doc.variables[i])],
     related_types |-> [i \in 1..Len(doc.related_types) |-> Resolve(doc.related_types[i])]]

\* ", ".join(list): a TypeError when an element is not a str.
RECURSIVE JoinTexts(_)
JoinTexts(list) ==
    IF list = << >> THEN << >>
    ELSE IF Len(list) = 1 THEN list[1].text
    ELSE list[1].text \o <<SEP>> \o JoinTexts(Tail(list))

join(list) ==
    IF \E i \in 1..Len(list) : list[i].ty # "str"
    THEN [raised |-> TRUE, val |-> PyStr(<< >>)]
    ELSE [raised |-> FALSE, val |-> PyStr(JoinTexts(list))]

\* A chunk of load_dsls: its id and the metadata name, type, variables and
\* related_types.
Chunk(id, type, variables, related_types) ==
    [id |-> id,
     metadata |-> [name |-> id, type |-> type, variables |-> variables,
                   related_types |-> related_types]]
NoChunk == Chunk(PyStr(<< >>), "", PyStr(<< >>), PyStr(<< >>))

chunk_of_RelatedFromVariables(dsl) ==
    LET variables == join(dsl.variables)
        related_types == join(dsl.variables)
    IN IF variables.raised \/ related_types.raised
       THEN [raised |-> TRUE, chunk |-> NoChunk]
       ELSE [raised |-> FALSE,
             chunk |-> Chunk(dsl.name, dsl.type, variables.val, related_types.val)]

\* Lines 12-23 of load_dsls: the chunk made of one loaded file.
chunk_of(dsl) ==
    LET variables == join(dsl.variables)
        related_types == join(dsl.related_types)
    IN IF variables.raised \/ related_types.raised
       THEN [raised |-> TRUE, chunk |-> NoChunk]
       ELSE [raised |-> FALSE,
             chunk |-> Chunk(dsl.name, dsl.type, variables.val, related_types.val)]

\* A file of the directory: the record it was written from, its text, its
\* description ("extracted": the one generate_dsl wrote) and whether it has
\* a keywords field.
File(record, doc) ==
    [present |-> TRUE, record |-> record, doc |-> doc,
     description |-> "extracted", keywords |-> FALSE]
NoFile ==
    [present |-> FALSE, record |-> NoRecord, doc |-> NoYaml,
     description |-> "", keywords |-> FALSE]

\* The files named in the improvements mapping of improve_dsl_descriptions
\* and improve_dsl_descriptions_v2.
improvements == {"query_a"}

\* load_dsls: one chunk per file of the directory; an exception of any
\* file ends the call.
load_dsls(dir) ==
    LET made == [f \in Files |-> chunk_of(yaml_safe_load(dir[f].doc))]
    IN [raised |-> \E f \in Files : dir[f].present /\ made[f].raised,
        chunks |-> [f \in Files |->
                      [present |-> dir[f].present,
                       record |-> dir[f].record,
                       chunk |-> IF dir[f].present THEN made[f].chunk ELSE NoChunk]]]

\* The ids of the collection are record names.
Ids == {PyStr(Name("a")), PyStr(Name("b"))}
Entry(chunk) == [present |-> TRUE, chunk |-> chunk]
NoEntry == [present |-> FALSE, chunk |-> NoChunk]

NotBuilt ==
    [built |-> FALSE,
     files |-> [f \in Files |-> [present |-> FALSE, record |-> NoRecord, chunk |-> NoChunk]]]

(***************************************************************************)
(* IntegratedRAGBuilder.  A document is its metadata: source, type and     *)
(* dsl_name.  The text splitter leaves a short document in one piece.      *)
(***************************************************************************)
MaxCopies == 2
OpenapiFile == "openapi_dsl.yaml"

\* The file names of the OpenAPI DSL directory: where each lies and its
\* extension.
OpenapiNames ==
    [openapi_dsl_yaml |-> [name |-> OpenapiFile, dir |-> "", ext |-> "yaml"],
     openapi_dsl_json |-> [name |-> "openapi_dsl.json", dir |-> "", ext |-> "json"],
     operation_yaml |-> [name |-> "operations/getScenario.yaml", dir |-> "operations", ext |-> "yaml"],
     operation_md |-> [name |-> "operations/getScenario.md", dir |-> "operations", ext |-> "md"]]
OpenapiFiles == {OpenapiNames[n].name : n \in DOMAIN OpenapiNames}
InfoOf(file) == OpenapiNames[CHOOSE n \in DOMAIN OpenapiNames : OpenapiNames[n].name = file]

\* Path.glob("*.ext") on a directory of the OpenAPI DSL output.
glob(files, dir, suffix) == {f \in files : InfoOf(f).dir = dir /\ InfoOf(f).ext = suffix}

\* The OpenAPI specifications given to openapi_to_dsl: the operationId of
\* each operation, "" for an operation that has none.
OpenapiSpecs == {<< >>, <<"getScenario">>, <<"">>}

\* generate_dsl_from_openapi: one entry of dsl['operations'] per operation.
generate_dsl_from_openapi(openapi_spec) == [operations |-> openapi_spec]

\* save_dsl_files: openapi_dsl.yaml, and operations/<operationId>.yaml for
\* every operation that has an operationId.
save_dsl_files(dsl) ==
    {OpenapiFile}
    \cup {OpenapiNames.operation_yaml.name : i \in {j \in 1..Len(dsl.operations) : dsl.operations[j] # ""}}

EmptyDir == [files |-> {}, operations |-> << >>]

Sources == Files \cup OpenapiFiles
FileOrder == <<"query_a", "query_b">>

Document(source, type, dsl_name) == [source |-> source, type |-> type, dsl_name |-> dsl_name]
Stored(copies, type) == [copies |-> copies, type |-> type]

\* load_graphql_dsl: one document of type 'graphql' per YAML file of the
\* GraphQL DSL directory.
load_graphql_dsl(dir) ==
    LET there == SelectSeq(FileOrder, LAMBDA f : dir[f].present)
    IN [i \in 1..Len(there) |->
          Document(there[i], "graphql", yaml_safe_load(dir[there[i]].doc).name)]

\* load_openapi_dsl: a document of type 'openapi' for openapi_dsl.json, for
\* openapi_dsl.yaml, and for every .yaml and every .md file of operations/.
\* For an operation file dsl_name stands for the 'operation' of its metadata.
load_openapi_dsl(dir) ==
    LET main(file) == IF file \in dir.files
                      THEN <<Document(file, "openapi", PyStr(Name("OpenAPI Service")))>>
                      ELSE << >>
        ops(suffix) == IF glob(dir.files, "operations", suffix) = {} THEN << >>
                       ELSE LET f == CHOOSE f \in glob(dir.files, "operations", suffix) : TRUE
                            IN <<Document(f, "openapi", PyStr(Name("getScenario")))>>
    IN main(OpenapiNames.openapi_dsl_json.name) \o main(OpenapiFile) \o ops("yaml") \o ops("md")

(***************************************************************************)
(* dsl_registry/gql_schema_to_dsl: extract_type_definition.  A schema      *)
(* gives every object type its fields in order.  The type of a field is    *)
(* "ref" (T! or [T]: one wrapper around the object type T, so of_type is   *)
(* T), "bare" (T itself, no of_type), "deep" ([T!]! and the like: of_type  *)
(* is again a wrapper) or "scalar".                                        *)
(***************************************************************************)
Types == {"A", "B"}
FieldNames == <<"f1", "f2">>
FieldTypes ==
    [kind : {"ref"}, of : Types]
    \cup {[kind |-> "bare", of |-> "B"], [kind |-> "deep", of |-> "A"],
          [kind |-> "scalar", of |-> "Int"]}
FieldLists == {<<f>> : f \in FieldTypes} \cup {<<f, g>> : f \in FieldTypes, g \in FieldTypes}
Schemas == [Types -> FieldLists]

\* inner_type of line 31 when it passes the tests of line 32 but the one on
\* visited: getattr(field.type, "of_type", None) is there and has fields.
HasInnerObject(field) == field.kind = "ref"

Frame(type, i, keys) == [type |-> type, i |-> i, keys |-> keys]
NoExtraction ==
    [pc |-> "idle", schema |-> [t \in Types |-> <<[kind |-> "scalar", of |-> "Int"]>>],
     stack |-> << >>, visited |-> {}, expanded |-> [t \in Types |-> 0], result |-> {}]

(***************************************************************************)
(* pipeline/translation: term protection.  A text is a sequence of tokens: *)
(* the Korean syllables "ga" and "na", the space, the phrase mock_translate *)
(* knows, and in the output the pieces of a placeholder "__TERM_" key "__" *)
(* and English terms.  A glossary maps a key to its term.                  *)
(***************************************************************************)
MaxText == 3
TextTokens == {"ga", "na", " ", "list"}
Texts == UNION { [1..n -> TextTokens] : n \in 1..MaxText }

\* The ko glossaries: terms apart, a term inside another, terms that overlap,
\* a key without a ko term.
KoGlossaries ==
    {[a |-> <<"ga">>, b |-> <<"na">>],
     [a |-> <<"ga", "na">>, b |-> <<"na">>],
     [a |-> <<"ga", "na">>, b |-> <<"na", "ga">>],
     [a |-> <<"ga">>]}
EnGlossaries == {[a |-> "A", b |-> "B"], [a |-> "A"]}

\* f"__TERM_{key}__"
Placeholder(key) == <<"__TERM_", key, "__">>

\* automaton.iter(text): every occurrence of every term, overlapping ones
\* too, by the index of its last token; of two that end together the
\* longer one first.
Occurrences(text, ko_glossary) ==
    {[key |-> key, start |-> start, end |-> start + Len(ko_glossary[key]) - 1] :
        key \in DOMAIN ko_glossary, start \in 1..Len(text)}
Matches(text, ko_glossary) ==
    {m \in Occurrences(text, ko_glossary) :
        /\ m.end <= Len(text)
        /\ SubSeq(text, m.start, m.end) = ko_glossary[m.key]}
Before(m, n) == m.end < n.end \/ (m.end = n.end /\ m.start < n.start)
iter(text, ko_glossary) ==
    LET found == Matches(text, ko_glossary)
    IN [i \in 1..Cardinality(found) |->
          CHOOSE m \in found : Cardinality({n \in found : Before(n, m)}) = i - 1]

\* The pieces replace_terms appends to result: text[last_idx:start_idx]
\* (empty when last_idx is past start_idx) and a placeholder per match,
\* and the rest of the text in the end.
Copy(from, to) == [kind |-> "copy", key |-> "", from |-> from, to |-> to]
Term(key, from, to) == [kind |-> "term", key |-> key, from |-> from, to |-> to]

RECURSIVE AppendFrom(_, _, _)
AppendFrom(matches, text, last_idx) ==
    IF matches = << >> THEN <<Copy(last_idx, Len(text))>>
    ELSE LET m == Head(matches)
         IN <<Copy(last_idx, m.start - 1), Term(m.key, m.start, m.end)>>
            \o AppendFrom(Tail(matches), text, m.end + 1)

PieceText(text, piece) ==
    IF piece.kind = "term" THEN Placeholder(piece.key)
    ELSE IF piece.from > piece.to THEN << >>
    ELSE SubSeq(text, piece.from, piece.to)

RECURSIVE Joined_(_, _)
Joined_(text, pieces) ==
    IF pieces = << >> THEN << >>
    ELSE PieceText(text, Head(pieces)) \o Joined_(text, Tail(pieces))

replace_pieces(text, ko_glossary) == AppendFrom(iter(text, ko_glossary), text, 1)

\* replace_terms: ''.join(result)
replace_terms(text, ko_glossary) == Joined_(text, replace_pieces(text, ko_glossary))

\* mock_translate: the one phrase it knows is put in English.
mock_translate(text) ==
    [i \in 1..Len(text) |-> IF text[i] = "list" THEN "Show me the list of" ELSE text[i]]

\* The tokens made of characters of the class [a-zA-Z0-9_.].
KeyClass == {"__TERM_", "__", "a", "b", "A", "B"}

\* The longest prefix of a text made of tokens of the class.
RECURSIVE RunLength(_)
RunLength(text) ==
    IF text = << >> \/ Head(text) \notin KeyClass THEN 0 ELSE 1 + RunLength(Tail(text))

\* restore_terms: re.sub of __TERM_([a-zA-Z0-9_.]+)__ from left to right.
\* The group is greedy: it runs to the last "__" of the run of class
\* characters that follows "__TERM_".  A key of the glossary is replaced by
\* its English term, any other match by itself.
restore_terms(text, en_glossary) ==
    LET RECURSIVE sub(_)
        sub(rest) ==
            IF rest = << >> THEN << >>
            ELSE IF Head(rest) # "__TERM_" THEN <<Head(rest)>> \o sub(Tail(rest))
            ELSE LET after == Tail(rest)
                     closers == {j \in 2..RunLength(after) : after[j] = "__"}
                 IN IF closers = {} THEN <<Head(rest)>> \o sub(after)
                    ELSE LET j == CHOOSE c \in closers : \A d \in closers : d <= c
                             key == SubSeq(after, 1, j - 1)
                         IN (IF Len(key) = 1 /\ key[1] \in DOMAIN en_glossary
                             THEN <<en_glossary[key[1]]>>
                             ELSE <<"__TERM_">> \o key \o <<"__">>)
                            \o sub(SubSeq(after, j + 1, Len(after)))
    IN sub(text)

NoRun ==
    [pc |-> "idle", text |-> << >>, ko_glossary |-> [a |-> <<"ga">>], en_glossary |-> [a |-> "A"],
     pieces |-> << >>, preprocessed |-> << >>, translated |-> << >>, postprocessed |-> << >>]

GQ_Idle ==
    /\ pc = "idle"
    /\ steps = << >>
    /\ user_query = ""
    /\ protocol_result = NoOutcome
    /\ protocol = None
    /\ confidence = None
    /\ context_docs = << >>
    /\ generated_query = NoText
    /\ result = NoResult
    /\ exc = ""
    /\ detect_response = NoResponse
    /\ synth_response = NoResponse
    /\ llm_calls = << >>

Init ==
    /\ index \in Indexes
    /\ GQ_Idle
    /\ call = NoCall
    /\ prev = NoCall
    /\ AC_Idle
    /\ reqs = [r \in Requests |-> FreshLocals]
    /\ srv = Undeployed
    /\ dsl_dir = [f \in Files |-> NoFile]
    /\ chroma_db = [id \in Ids |-> NoEntry]
    /\ loaded = NotBuilt
    /\ openapi_dir = EmptyDir
    /\ chroma = [src \in Sources |-> Stored(0, "")]
    /\ ext = NoExtraction
    /\ terms = NoRun

detect_protocol_calls_RetryMalformed(u, response) ==
    IF ~response.failed /\ ~json_loads(response.content).ok
    THEN <<Prompt("protocol_detection", u, << >>), Prompt("protocol_detection", u, << >>)>>
    ELSE <<Prompt("protocol_detection", u, << >>)>>

\* The LLM invocations of detect_protocol: the one call of lines 92-94,
\* whatever the reply turns out to be.
detect_protocol_calls(u, response) == <<Prompt("protocol_detection", u, << >>)>>

\* generate_query is called.
GQ_Start ==
    /\ pc = "idle"
    /\ \E u \in Utterances : user_query' = u
    /\ pc' = "start"
    /\ steps' = <<"start">>
    /\ UNCHANGED <<rtvars, apivars, othervars, index, protocol_result, protocol, confidence, context_docs,
                   generated_query, result, exc, detect_response, synth_response,
                   llm_calls>>

\* Lines 156-161: detect_protocol and the reads of its result.
GQ_Classify ==
    /\ pc = "start"
    /\ \E response \in ClassificationResponses :
         LET out == detect_protocol(response)
             err == IF out.raised THEN out.exc ELSE unpack(out.val)
         IN /\ detect_response' = response
            /\ protocol_result' = out
            /\ llm_calls' = llm_calls \o detect_protocol_calls(user_query, response)
            /\ IF err # ""
               THEN /\ exc' = err
                    /\ pc' = "raised"
                    /\ steps' = Append(steps, "raised")
                    /\ UNCHANGED <<protocol, confidence>>
               ELSE /\ protocol' = out.val.items["protocol"]
                    /\ confidence' = out.val.items["confidence"]
                    /\ pc' = "classify"
                    /\ steps' = Append(steps, "classify")
                    /\ UNCHANGED exc
    /\ UNCHANGED <<rtvars, apivars, othervars, index, user_query, context_docs, generated_query, result,
                   synth_response>>

GQ_Retrieve_AlwaysGraphql ==
    /\ pc = "classify"
    /\ \E failed \in BOOLEAN :
         IF failed
         THEN /\ exc' = "UpstreamError"
              /\ pc' = "raised"
              /\ steps' = Append(steps, "raised")
              /\ UNCHANGED context_docs
         ELSE /\ context_docs' = search_relevant_context(index, user_query, Str("graphql"), DefaultK)
              /\ pc' = "retrieve"
              /\ steps' = Append(steps, "retrieve")
              /\ UNCHANGED exc
    /\ UNCHANGED <<rtvars, apivars, othervars, index, user_query, protocol_result, protocol, confidence,
                   generated_query, result, detect_response, synth_response,
                   llm_calls>>

\* Lines 164-165: search_relevant_context with the default k; the embedding
\* or the vector store may fail.
GQ_Retrieve ==
    /\ pc = "classify"
    /\ \E failed \in BOOLEAN :
         IF failed
         THEN /\ exc' = "UpstreamError"
              /\ pc' = "raised"
              /\ steps' = Append(steps, "raised")
              /\ UNCHANGED context_docs
         ELSE /\ context_docs' = search_relevant_context(index, user_query, protocol, DefaultK)
              /\ pc' = "retrieve"
              /\ steps' = Append(steps, "retrieve")
              /\ UNCHANGED exc
    /\ UNCHANGED <<rtvars, apivars, othervars, index, user_query, protocol_result, protocol, confidence,
                   generated_query, result, detect_response, synth_response,
                   llm_calls>>

\* Lines 168-171: the synthesizer of the classified protocol, entered from
\* one of the positions in from.
GQ_SynthesizeFrom(from) ==
    /\ pc \in from
    /\ \E response \in SynthesisResponses :
         LET graphql == protocol = Str("graphql")
             out == IF graphql
                    THEN generate_graphql_query(user_query, context_docs, response)
                    ELSE generate_rest_request(user_query, context_docs, response)
         IN /\ synth_response' = response
            /\ llm_calls' = Append(llm_calls,
                   Prompt(IF graphql THEN "graphql" ELSE "rest", user_query, context_docs))
            /\ IF out.raised
               THEN /\ exc' = out.exc
                    /\ pc' = "raised"
                    /\ steps' = Append(steps, "raised")
                    /\ UNCHANGED generated_query
               ELSE /\ generated_query' = out.val
                    /\ pc' = "synthesize"
                    /\ steps' = Append(steps, "synthesize")
                    /\ UNCHANGED exc
    /\ UNCHANGED <<rtvars, apivars, othervars, index, user_query, protocol_result, protocol, confidence,
                   context_docs, result, detect_response>>

GQ_Synthesize_BeforeRetrieve == GQ_SynthesizeFrom({"classify", "retrieve"})

\* The synthesis follows the retrieval.
GQ_Synthesize == GQ_SynthesizeFrom({"retrieve"})

GQ_Return_FallbackConfidence ==
    /\ pc = "synthesize"
    /\ result' = [user_query |-> user_query,
                  detected_protocol |-> protocol,
                  confidence |-> Num(FallbackConfidence),
                  reasoning |-> protocol_result.val.items["reasoning"],
                  generated_query |-> generated_query,
                  context_sources |-> context_sources(index, context_docs)]
    /\ pc' = "done"
    /\ steps' = Append(steps, "done")
    /\ UNCHANGED <<rtvars, apivars, othervars, index, user_query, protocol_result, protocol, confidence,
                   context_docs, generated_query, exc, detect_response,
                   synth_response, llm_calls>>

\* Lines 174-190: the result is built and returned.
GQ_Return ==
    /\ pc = "synthesize"
    /\ result' = [user_query |-> user_query,
                  detected_protocol |-> protocol,
                  confidence |-> confidence,
                  reasoning |-> protocol_result.val.items["reasoning"],
                  generated_query |-> generated_query,
                  context_sources |-> context_sources(index, context_docs)]
    /\ pc' = "done"
    /\ steps' = Append(steps, "done")
    /\ UNCHANGED <<rtvars, apivars, othervars, index, user_query, protocol_result, protocol, confidence,
                   context_docs, generated_query, exc, detect_response,
                   synth_response, llm_calls>>

\* The caller has the result (or the exception); the next call starts from
\* fresh locals.
GQ_Finish ==
    /\ pc \in {"done", "raised"}
    /\ pc' = "idle"
    /\ steps' = << >>
    /\ user_query' = ""
    /\ protocol_result' = NoOutcome
    /\ protocol' = None
    /\ confidence' = None
    /\ context_docs' = << >>
    /\ generated_query' = NoText
    /\ result' = NoResult
    /\ exc' = ""
    /\ detect_response' = NoResponse
    /\ synth_response' = NoResponse
    /\ llm_calls' = << >>
    /\ UNCHANGED <<rtvars, apivars, othervars, index>>

(***************************************************************************)
(* The steps of generate_query for request r, on r's own locals.           *)
(***************************************************************************)
R_Start(r) ==
    /\ reqs[r].pc = "idle"
    /\ reqs' = [reqs EXCEPT ![r] = [@ EXCEPT !.pc = "start",
                                             !.user_query = UtteranceOf(r),
                                             !.overlap = InFlight(Other(r))]]
    /\ UNCHANGED <<index, gqvars, rtvars, apivars, scriptvars, srvvars, buildvars, ibvars>>

R_Classify(r) ==
    /\ reqs[r].pc = "start"
    /\ \E response \in ConcurrentClassificationResponses :
         LET out == detect_protocol(response)
             err == IF out.raised THEN out.exc ELSE unpack(out.val)
         IN reqs' = [reqs EXCEPT ![r] =
                IF err # ""
                THEN [@ EXCEPT !.detect_response = response, !.protocol_result = out,
                               !.exc = err, !.pc = "raised"]
                ELSE [@ EXCEPT !.detect_response = response, !.protocol_result = out,
                               !.protocol = out.val.items["protocol"],
                               !.confidence = out.val.items["confidence"],
                               !.pc = "classify"]]
    /\ UNCHANGED <<index, gqvars, rtvars, apivars, scriptvars, srvvars, buildvars, ibvars>>

R_Retrieve_SharedContext(r) ==
    /\ reqs[r].pc = "classify"
    /\ \E failed \in BOOLEAN :
         LET docs == search_relevant_context(index, reqs[r].user_query, reqs[r].protocol, DefaultK)
         IN reqs' = IF failed
                    THEN [reqs EXCEPT ![r] = [@ EXCEPT !.search_failed = TRUE,
                                                       !.exc = "UpstreamError", !.pc = "raised"]]
                    ELSE [reqs EXCEPT ![r] = [@ EXCEPT !.context_docs = docs, !.pc = "retrieve"],
                                      ![Other(r)] = [@ EXCEPT !.context_docs = docs]]
    /\ UNCHANGED <<index, gqvars, rtvars, apivars, scriptvars, srvvars, buildvars, ibvars>>

R_Retrieve(r) ==
    /\ reqs[r].pc = "classify"
    /\ \E failed \in BOOLEAN :
         reqs' = [reqs EXCEPT ![r] =
            IF failed
            THEN [@ EXCEPT !.search_failed = TRUE, !.exc = "UpstreamError", !.pc = "raised"]
            ELSE [@ EXCEPT !.context_docs = search_relevant_context(index, reqs[r].user_query,
                                                                    reqs[r].protocol, DefaultK),
                           !.pc = "retrieve"]]
    /\ UNCHANGED <<index, gqvars, rtvars, apivars, scriptvars, srvvars, buildvars, ibvars>>

R_Synthesize(r) ==
    /\ reqs[r].pc = "retrieve"
    /\ \E response \in ConcurrentSynthesisResponses :
         LET out == IF reqs[r].protocol = Str("graphql")
                    THEN generate_graphql_query(reqs[r].user_query, reqs[r].context_docs, response)
                    ELSE generate_rest_request(reqs[r].user_query, reqs[r].context_docs, response)
         IN reqs' = [reqs EXCEPT ![r] =
                IF out.raised
                THEN [@ EXCEPT !.synth_response = response, !.exc = out.exc, !.pc = "raised"]
                ELSE [@ EXCEPT !.synth_response = response, !.generated_query = out.val,
                               !.pc = "synthesize"]]
    /\ UNCHANGED <<index, gqvars, rtvars, apivars, scriptvars, srvvars, buildvars, ibvars>>

R_Return(r) ==
    /\ reqs[r].pc = "synthesize"
    /\ reqs' = [reqs EXCEPT ![r] =
          [@ EXCEPT !.result = [user_query |-> reqs[r].user_query,
                                detected_protocol |-> reqs[r].protocol,
                                confidence |-> reqs[r].confidence,
                                reasoning |-> reqs[r].protocol_result.val.items["reasoning"],
                                generated_query |-> reqs[r].generated_query,
                                context_sources |-> context_sources(index, reqs[r].context_docs)],
                    !.pc = "done"]]
    /\ UNCHANGED <<index, gqvars, rtvars, apivars, scriptvars, srvvars, buildvars, ibvars>>

NextConcurrent ==
    \E r \in Requests :
        \/ R_Start(r)
        \/ R_Classify(r)
        \/ R_Retrieve(r)
        \/ R_Synthesize(r)
        \/ R_Return(r)

(***************************************************************************)
(* Deployment, start-up and the /ask request of main.py                    *)
(***************************************************************************)
\* The deployment gets its configuration.
SRV_Configure ==
    /\ ~srv.configured
    /\ \E has_file \in BOOLEAN, key \in SettingsKeys, has_env \in BOOLEAN :
         srv' = [srv EXCEPT !.configured = TRUE, !.settings_file = has_file,
                            !.settings_key = IF has_file THEN key ELSE "absent",
                            !.env_key = has_env]
    /\ UNCHANGED <<index, gqvars, rtvars, apivars, scriptvars, ccvars, buildvars, ibvars>>

\* main.py is imported by the server: its imports run config/settings.py.
SRV_Startup ==
    /\ srv.configured
    /\ srv.app = "down"
    /\ srv' = IF load_settings(srv) = ""
              THEN [srv EXCEPT !.app = "up"]
              ELSE [srv EXCEPT !.app = "failed", !.exc = load_settings(srv)]
    /\ UNCHANGED <<index, gqvars, rtvars, apivars, scriptvars, ccvars, buildvars, ibvars>>

\* A POST /ask is accepted and ask_question starts.
SRV_Accept ==
    /\ srv.app = "up"
    /\ srv.ask = "none"
    /\ srv' = [srv EXCEPT !.ask = "accepted"]
    /\ UNCHANGED <<index, gqvars, rtvars, apivars, scriptvars, ccvars, buildvars, ibvars>>

\* ask_question, lines 14-17: load_llm, then plan_query (retrieve_relevant_dsl,
\* which answers or fails upstream, then generate_graphql_query), then
\* execute_query, which answers or fails upstream.
SRV_ask_question ==
    /\ srv.ask = "accepted"
    /\ \E retrieval_failed \in BOOLEAN, llm_failed \in BOOLEAN, execution_failed \in BOOLEAN :
         LET b == plan_query_binding("question", "ChatOpenAI")
             planned == llm_generate_graphql_query(b.user_input, b.dsl_chunk, b.llm, llm_failed)
         IN srv' = IF load_llm(srv) # ""
                   THEN [srv EXCEPT !.ask = "raised", !.exc = load_llm(srv)]
                   ELSE IF retrieval_failed
                   THEN [srv EXCEPT !.ask = "raised", !.exc = "UpstreamError"]
                   ELSE IF planned # ""
                   THEN [srv EXCEPT !.ask = "raised", !.exc = planned, !.user_input = b.user_input]
                   ELSE IF execution_failed
                   THEN [srv EXCEPT !.ask = "raised", !.exc = "UpstreamError", !.user_input = b.user_input]
                   ELSE [srv EXCEPT !.ask = "answered", !.user_input = b.user_input]
    /\ UNCHANGED <<index, gqvars, rtvars, apivars, scriptvars, ccvars, buildvars, ibvars>>

\* main() of integrated_query_generator is run from the command line.
SRV_main ==
    /\ srv.configured
    /\ srv.cli = "idle"
    /\ srv' = IF main_api_key(srv)
              THEN [srv EXCEPT !.cli = "generator"]
              ELSE [srv EXCEPT !.cli = "returned"]
    /\ UNCHANGED <<index, gqvars, rtvars, apivars, scriptvars, ccvars, buildvars, ibvars>>

NextServer ==
    \/ SRV_Configure
    \/ SRV_Startup
    \/ SRV_Accept
    \/ SRV_ask_question
    \/ SRV_main

(***************************************************************************)
(* The DSL directory and rag/index_builder.  generate_dsl writes to        *)
(* DSL_OUTPUT_DIR and load_dsls reads its dsl_dir argument; they are taken *)
(* to name the same directory.                                             *)
(***************************************************************************)
\* generate_dsl writes (or overwrites) the file of a record.
B_generate_dsl ==
    /\ \E f \in Files : \E dsl_data \in ExtractedRecords(f) :
         dsl_dir' = [dsl_dir EXCEPT ![f] = File(dsl_data, yaml_dump(dsl_data))]
    /\ UNCHANGED <<index, gqvars, rtvars, apivars, scriptvars, ccvars, srvvars, ibvars, chroma_db, loaded>>

\* A record file is put in the directory by hand.
B_PutRecord ==
    /\ \E f \in Files : \E dsl_data \in ForeignRecords(f) :
         dsl_dir' = [dsl_dir EXCEPT ![f] = File(dsl_data, yaml_dump(dsl_data))]
    /\ UNCHANGED <<index, gqvars, rtvars, apivars, scriptvars, ccvars, srvvars, ibvars, chroma_db, loaded>>

\* A record is removed: its file is deleted.
B_RemoveRecord ==
    /\ \E f \in Files :
         /\ dsl_dir[f].present
         /\ dsl_dir' = [dsl_dir EXCEPT ![f] = NoFile]
    /\ UNCHANGED <<index, gqvars, rtvars, apivars, scriptvars, ccvars, srvvars, ibvars, chroma_db, loaded>>

\* build_index: load_dsls, then add_texts with the chunk ids on the
\* persisted collection: a chunk replaces the entry of its id, the other
\* entries stay.
build_index ==
    LET out == load_dsls(dsl_dir)
        Added(id) == { f \in Files : out.chunks[f].present /\ out.chunks[f].chunk.id = id }
    IN /\ ~out.raised
       /\ chroma_db' = [id \in Ids |->
                           IF Added(id) # {}
                           THEN Entry(out.chunks[CHOOSE f \in Added(id) : TRUE].chunk)
                           ELSE chroma_db[id]]
       /\ loaded' = [built |-> TRUE, files |-> out.chunks]
       /\ UNCHANGED <<index, gqvars, rtvars, apivars, scriptvars, ccvars, srvvars, ibvars, dsl_dir>>

NextBuild ==
    \/ B_generate_dsl
    \/ B_PutRecord
    \/ B_RemoveRecord
    \/ build_index

\* improve_dsl_descriptions (and its v2): every file of the mapping that
\* exists is loaded, gets the description and the keywords of the mapping,
\* and is dumped over itself.
B_improve_dsl_descriptions ==
    /\ \E f \in improvements : dsl_dir[f].present
    /\ dsl_dir' = [f \in Files |->
                     IF f \in improvements /\ dsl_dir[f].present
                     THEN LET dsl_data == yaml_safe_load(dsl_dir[f].doc)
                          IN [dsl_dir[f] EXCEPT
                                !.doc = yaml_dump([name |-> dsl_data.name.text,
                                                   type |-> dsl_data.type,
                                                   variables |-> [i \in 1..Len(dsl_data.variables) |->
                                                                    dsl_data.variables[i].text],
                                                   related_types |-> [i \in 1..Len(dsl_data.related_types) |->
                                                                        dsl_data.related_types[i].text]]),
                                !.description = "improved",
                                !.keywords = TRUE]
                     ELSE dsl_dir[f]]
    /\ UNCHANGED <<index, gqvars, rtvars, apivars, scriptvars, ccvars, srvvars, ibvars, chroma_db, loaded>>

(***************************************************************************)
(* extract_type_definition, one step of its recursion at a time            *)
(***************************************************************************)
\* generate_dsl calls extract_type_definition(return_type): visited is a
\* new empty set, the loop over the fields of the type starts.
X_Call ==
    /\ ext.pc = "idle"
    /\ \E schema \in Schemas, root \in Types :
         ext' = [pc |-> "running", schema |-> schema,
                 stack |-> <<Frame(root, 1, {})>>, visited |-> {},
                 expanded |-> [t \in Types |-> IF t = root THEN 1 ELSE 0],
                 result |-> {}]
    /\ UNCHANGED <<index, gqvars, rtvars, apivars, ccvars, srvvars, buildvars, ibvars, terms>>

\* Lines 29-35 for the innermost call: the next field is entered in result
\* and, when its inner type is an object type not in visited, that type is
\* added to visited and expanded by a nested call.
X_Field ==
    /\ ext.pc = "running"
    /\ LET top == Len(ext.stack)
           fr == ext.stack[top]
           fields == ext.schema[fr.type]
       IN /\ fr.i <= Len(fields)
          /\ LET field == fields[fr.i]
                 here == Frame(fr.type, fr.i + 1, fr.keys \cup {FieldNames[fr.i]})
             IN ext' = IF HasInnerObject(field) /\ field.of \notin ext.visited
                       THEN [ext EXCEPT !.stack = Append([ext.stack EXCEPT ![top] = here],
                                                         Frame(field.of, 1, {})),
                                        !.visited = @ \cup {field.of},
                                        !.expanded[field.of] = @ + 1]
                       ELSE [ext EXCEPT !.stack[top] = here]
    /\ UNCHANGED <<index, gqvars, rtvars, apivars, ccvars, srvvars, buildvars, ibvars, terms>>

\* Line 36 (and the update of line 35): the innermost call returns its
\* result; the caller enters it under the name of the type.
X_Return ==
    /\ ext.pc = "running"
    /\ LET top == Len(ext.stack)
           fr == ext.stack[top]
       IN /\ fr.i > Len(ext.schema[fr.type])
          /\ ext' = IF top = 1
                    THEN [ext EXCEPT !.pc = "returned", !.stack = << >>, !.result = fr.keys]
                    ELSE [ext EXCEPT !.stack =
                            [SubSeq(ext.stack, 1, top - 1) EXCEPT
                                ![top - 1].keys = @ \cup {fr.type}]]
    /\ UNCHANGED <<index, gqvars, rtvars, apivars, ccvars, srvvars, buildvars, ibvars, terms>>

\* generate_dsl has the definition.
X_Finish ==
    /\ ext.pc = "returned"
    /\ ext' = NoExtraction
    /\ UNCHANGED <<index, gqvars, rtvars, apivars, ccvars, srvvars, buildvars, ibvars, terms>>

NextExtract ==
    \/ X_Call
    \/ X_Field
    \/ X_Return
    \/ X_Finish

(***************************************************************************)
(* translate_pipeline.main                                                 *)
(***************************************************************************)
\* Lines 18-33: the glossaries are loaded, the automaton is built and the
\* input text is read.
T_Input ==
    /\ terms.pc = "idle"
    /\ \E text \in Texts, ko_glossary \in KoGlossaries, en_glossary \in EnGlossaries :
         terms' = [NoRun EXCEPT !.pc = "input", !.text = text,
                                !.ko_glossary = ko_glossary, !.en_glossary = en_glossary]
    /\ UNCHANGED <<index, gqvars, rtvars, apivars, ccvars, srvvars, buildvars, ibvars, ext>>

\* Line 37: replace_terms.
T_Preprocess ==
    /\ terms.pc = "input"
    /\ terms' = [terms EXCEPT !.pc = "preprocessed",
                              !.pieces = replace_pieces(terms.text, terms.ko_glossary),
                              !.preprocessed = replace_terms(terms.text, terms.ko_glossary)]
    /\ UNCHANGED <<index, gqvars, rtvars, apivars, ccvars, srvvars, buildvars, ibvars, ext>>

\* Lines 41-46: mock_translate, then restore_terms.
T_Postprocess ==
    /\ terms.pc = "preprocessed"
    /\ LET translated == mock_translate(terms.preprocessed)
       IN terms' = [terms EXCEPT !.pc = "postprocessed",
                                 !.translated = translated,
                                 !.postprocessed = restore_terms(translated, terms.en_glossary)]
    /\ UNCHANGED <<index, gqvars, rtvars, apivars, ccvars, srvvars, buildvars, ibvars, ext>>

\* main has printed its result.
T_Finish ==
    /\ terms.pc = "postprocessed"
    /\ terms' = NoRun
    /\ UNCHANGED <<index, gqvars, rtvars, apivars, ccvars, srvvars, buildvars, ibvars, ext>>

NextTerms ==
    \/ T_Input
    \/ T_Preprocess
    \/ T_Postprocess
    \/ T_Finish

NextRecords ==
    \/ B_generate_dsl
    \/ B_PutRecord
    \/ B_RemoveRecord
    \/ B_improve_dsl_descriptions
    \/ build_index

(***************************************************************************)
(* The integrated index build                                              *)
(***************************************************************************)
\* main() of openapi_to_dsl: the DSL of a specification is generated and
\* saved; files of an earlier run stay unless they are written again.
IB_WriteOpenapiDsl ==
    /\ \E openapi_spec \in OpenapiSpecs :
         LET dsl == generate_dsl_from_openapi(openapi_spec)
         IN openapi_dir' = [files |-> openapi_dir.files \cup save_dsl_files(dsl),
                            operations |-> dsl.operations]
    /\ UNCHANGED <<index, gqvars, rtvars, apivars, scriptvars, ccvars, srvvars, buildvars, chroma>>

\* The OpenAPI DSL directory is emptied.
IB_RemoveOpenapiDsl ==
    /\ openapi_dir.files # {}
    /\ openapi_dir' = EmptyDir
    /\ UNCHANGED <<index, gqvars, rtvars, apivars, scriptvars, ccvars, srvvars, buildvars, chroma>>

\* build_integrated_index: the documents of both directories; with
\* LangChain and an API key, _create_vectorstore: Chroma.from_documents on
\* the persist directory adds every document to what is persisted there.
build_integrated_index ==
    LET all_docs == load_graphql_dsl(dsl_dir) \o load_openapi_dsl(openapi_dir)
        Added(src) == {i \in 1..Len(all_docs) : all_docs[i].source = src}
    IN /\ \A src \in Sources : chroma[src].copies + Cardinality(Added(src)) <= MaxCopies
       /\ \E with_vectorstore \in BOOLEAN :
            chroma' = IF with_vectorstore
                      THEN [src \in Sources |->
                              IF Added(src) = {} THEN chroma[src]
                              ELSE Stored(chroma[src].copies + Cardinality(Added(src)),
                                          all_docs[CHOOSE i \in Added(src) : TRUE].type)]
                      ELSE chroma
       /\ UNCHANGED <<index, gqvars, rtvars, apivars, scriptvars, ccvars, srvvars, buildvars, openapi_dir>>

NextIntegratedBuild ==
    \/ B_generate_dsl
    \/ B_RemoveRecord
    \/ IB_WriteOpenapiDsl
    \/ IB_RemoveOpenapiDsl
    \/ build_integrated_index

(***************************************************************************)
(* Direct calls of the two retrieval functions                             *)
(***************************************************************************)
SameCall(fn, u, p, k) ==
    call.fn = fn /\ call.user_query = u /\ call.protocol = p /\ call.k = k

\* search_relevant_context(user_query, protocol, k) is called.
Call_search_relevant_context ==
    /\ \E u \in Utterances, p \in ProtocolValues, k \in Ks(DefaultK) :
         /\ call' = Call("search_relevant_context", u, p, k, "", FALSE,
                         search_relevant_context(index, u, p, k))
         /\ prev' = IF SameCall("search_relevant_context", u, p, k) THEN call ELSE NoCall
    /\ UNCHANGED <<index, gqvars, apivars, othervars>>

Call_retrieve_relevant_dsl_Memo ==
    /\ \E u \in Utterances, k \in Ks(RetrieverK), response \in TranslationResponses :
         LET translated_input == translate_to_english(response)
             memo == SameCall("retrieve_relevant_dsl", u, None, k) /\ ~call.raised
         IN /\ call' = IF translated_input.raised
                       THEN Call("retrieve_relevant_dsl", u, None, k, "", TRUE, << >>)
                       ELSE Call("retrieve_relevant_dsl", u, None, k, translated_input.val, FALSE,
                                 IF memo THEN call.docs
                                 ELSE retrieve_relevant_dsl(index, translated_input.val, k))
            /\ prev' = IF SameCall("retrieve_relevant_dsl", u, None, k) THEN call ELSE NoCall
    /\ UNCHANGED <<index, gqvars, apivars, othervars>>

\* retrieve_relevant_dsl(user_input, k) is called.
Call_retrieve_relevant_dsl ==
    /\ \E u \in Utterances, k \in Ks(RetrieverK), response \in TranslationResponses :
         LET translated_input == translate_to_english(response)
         IN /\ call' = IF translated_input.raised
                       THEN Call("retrieve_relevant_dsl", u, None, k, "", TRUE, << >>)
                       ELSE Call("retrieve_relevant_dsl", u, None, k, translated_input.val, FALSE,
                                 retrieve_relevant_dsl(index, translated_input.val, k))
            /\ prev' = IF SameCall("retrieve_relevant_dsl", u, None, k) THEN call ELSE NoCall
    /\ UNCHANGED <<index, gqvars, apivars, othervars>>

NextRetrieval ==
    \/ Call_search_relevant_context
    \/ Call_retrieve_relevant_dsl

SpecRetrieval == Init /\ [][NextRetrieval]_vars

Next ==
    \/ GQ_Start
    \/ GQ_Classify
    \/ GQ_Retrieve
    \/ GQ_Synthesize
    \/ GQ_Return
    \/ GQ_Finish

Spec == Init /\ [][Next]_vars

NextApi ==
    \/ AC_Start
    \/ AC_Search
    \/ AC_Generate
    \/ AC_Finish

SpecApi == Init /\ [][NextApi]_vars

SpecConcurrent == Init /\ [][NextConcurrent]_vars

SpecServer == Init /\ [][NextServer]_vars

SpecBuild == Init /\ [][NextBuild]_vars

\* The build of a fresh installation: the store of the query generator is
\* still empty.
InitBuild == Init /\ index = << >>
\* The scripts run off line: the store of the query generator plays no part.
InitOffline == Init /\ index = << >>
SpecExtract == InitOffline /\ [][NextExtract]_vars
SpecTerms == InitOffline /\ [][NextTerms]_vars
SpecRecords == InitBuild /\ [][NextRecords]_vars
SpecIntegratedBuild == InitBuild /\ [][NextIntegratedBuild]_vars

(***************************************************************************)
(* Properties of generate_query and detect_protocol                        *)
(***************************************************************************)
Range(seq) == { seq[i] : i \in 1..Len(seq) }
Linear == <<"start", "classify", "retrieve", "synthesize", "done">>
Classified == detect_response # NoResponse
Unparseable(response) == ~response.failed /\ ~json_loads(response.content).ok

\* C1: whenever the LLM's reply to the classification prompt does not parse
\* as JSON, detect_protocol returns protocol "graphql", confidence 0.5 and a
\* fallback reasoning string, and raises nothing.
C1_UnparseableGivesFallback ==
    (Classified /\ Unparseable(detect_response)) =>
        /\ ~protocol_result.raised
        /\ protocol_result.val.ty = "dict"
        /\ DOMAIN protocol_result.val.items = ClassificationKeys
        /\ protocol_result.val.items["protocol"] = Str("graphql")
        /\ protocol_result.val.items["confidence"] = Num(FallbackConfidence)
        /\ protocol_result.val.items["reasoning"].ty = "str"
        /\ "classify" \in Range(steps)

C1_Witness ==
    /\ pc = "classify"
    /\ detect_response.content.form = "fenced"
    /\ protocol = Str("graphql")
    /\ confidence = Num(FallbackConfidence)

\* C2: whatever text the LLM replies to the classification prompt,
\* generate_query does not raise because of it: an invocation whose
\* classification call got a reply ends raised only by an upstream failure.
C2_NeverHardStopsOnReply ==
    (Classified /\ ~detect_response.failed /\ pc = "raised") => exc = "UpstreamError"

\* C5: whenever retrieval yields no documents, generate_query makes no
\* synthesis LLM call for the request (the classification call is its only
\* one) and raises nothing.
C5_EmptyRetrievalSurfaced ==
    ("retrieve" \in Range(steps) /\ context_docs = << >>) =>
        /\ Len(llm_calls) = 1
        /\ exc = ""
        /\ generated_query = NoText

\* C6 as stated: every generate_query invocation that has ended passed
\* through start, classify, retrieve, synthesize and done.  (The invocations
\* that the reads of a malformed classification reply end are left aside
\* here: they are the matter of C2.)
C6_EveryInvocationRunsAllSteps ==
    (pc \in {"done", "raised"} /\ exc \in {"", "UpstreamError"}) => steps = Linear

\* C6 as amended: the steps of an invocation are taken in the order start,
\* classify, retrieve, synthesize, done, each at most once; an invocation
\* that returns has taken all of them, an invocation that raises stops at
\* the step that raised; the synthesis call is made only after retrieval
\* has returned.
C6_LinearOrder ==
    /\ \E n \in 0..Len(Linear) :
         \/ steps = SubSeq(Linear, 1, n) /\ pc = (IF n = 0 THEN "idle" ELSE Linear[n])
         \/ /\ n \in 1..3
            /\ steps = Append(SubSeq(Linear, 1, n), "raised")
            /\ pc = "raised"
    /\ pc = "done" => steps = Linear
    /\ (\E i \in 1..Len(llm_calls) : llm_calls[i].template \in {"graphql", "rest"})
          => "retrieve" \in Range(steps)

C6_Witness ==
    /\ pc = "done"
    /\ steps = Linear
    /\ Len(llm_calls) = 2

\* C7: the confidence of the Classification Result that detect_protocol
\* returned, and that generate_query goes on with, is a number between 0.0
\* and 1.0.
C7_ConfidenceInUnitInterval ==
    "classify" \in Range(steps) =>
        /\ confidence.ty = "num"
        /\ confidence.n >= 0
        /\ confidence.n <= 10
        /\ pc = "done" => result.confidence = confidence

\* C8: the detected_protocol of the Generation Result that generate_query
\* returns is "graphql" or "rest".
C8_DetectedProtocolIsKnown ==
    pc = "done" => result.detected_protocol \in {Str("graphql"), Str("rest")}

\* C12: the context block of a synthesis prompt holds the content of at
\* most three documents, the three highest-ranked of the retrieval result.
C12_ContextIsTopThree ==
    \A i \in 1..Len(llm_calls) :
        llm_calls[i].template \in {"graphql", "rest"} =>
            /\ Len(llm_calls[i].context) <= ContextTop
            /\ llm_calls[i].context = Head_n(context_docs, ContextTop)

CallsWith(templates) == { i \in 1..Len(llm_calls) : llm_calls[i].template \in templates }

\* C13: a classification makes exactly one LLM invocation whatever the
\* reply (valid, malformed, fallback taken, or the call failing), a
\* synthesis makes exactly one, and nothing is invoked a second time.
C13_OneCallPerStep ==
    /\ Cardinality(CallsWith({"protocol_detection"})) = (IF Classified THEN 1 ELSE 0)
    /\ Cardinality(CallsWith({"graphql", "rest"})) = (IF synth_response # NoResponse THEN 1 ELSE 0)
    /\ Len(llm_calls) <= 2

C13_Witness ==
    /\ pc = "done"
    /\ Unparseable(detect_response)
    /\ Cardinality(CallsWith({"protocol_detection"})) = 1
    /\ Cardinality(CallsWith({"graphql", "rest"})) = 1

(***************************************************************************)
(* Properties of retrieval                                                 *)
(***************************************************************************)
\* C3: every document search_relevant_context returns carries a metadata
\* 'type' equal to the protocol passed in; no document of another type is
\* returned.
C3_FilterRespected ==
    call.fn = "search_relevant_context" =>
        \A j \in 1..Len(call.docs) : Str(index[call.docs[j]].type) = call.protocol

C3_Witness ==
    /\ call.fn = "search_relevant_context"
    /\ call.k >= Len(index)
    /\ Len(call.docs) >= 2
    /\ Len(call.docs) < Len(index)

RawOf(c) ==
    IF c.fn = "search_relevant_context"
    THEN similarity_search(index, [text |-> c.user_query,
                                   suffix |-> IF c.protocol = Str("graphql")
                                              THEN "graphql" ELSE "rest"], c.k)
    ELSE similarity_search(index, [text |-> c.translated, suffix |-> ""], c.k)

PositionIn(seq, x) == CHOOSE j \in 1..Len(seq) : seq[j] = x

\* C11: the list a retrieval call returns has at most k documents, every
\* one of them is in the similarity search's top k, none is there twice,
\* and they stand in the order the similarity search ranked them.
C11_AtMostKInRankOrder ==
    (call.fn # "" /\ ~call.raised) =>
        LET raw == RawOf(call)
        IN /\ Len(call.docs) <= call.k
           /\ Len(raw) <= call.k
           /\ \A j \in 1..Len(call.docs) : call.docs[j] \in Range(raw)
           /\ \A i, j \in 1..Len(call.docs) :
                 i < j => PositionIn(raw, call.docs[i]) < PositionIn(raw, call.docs[j])

C11_Witness ==
    /\ call.fn = "search_relevant_context"
    /\ call.k = 2
    /\ Len(index) = MaxDocs
    /\ Len(call.docs) = 2
    /\ call.docs[1] > call.docs[2]

\* What a direct call returns when nothing but its arguments, the LLM's
\* translation and the index is looked at.
FreshResult(c) ==
    IF c.fn = "search_relevant_context"
    THEN search_relevant_context(index, c.user_query, c.protocol, c.k)
    ELSE retrieve_relevant_dsl(index, c.translated, c.k)

\* C14: no retrieval request changes the Vector Index (its documents and
\* their metadata stay as they were), and what a request returns is
\* determined by its own arguments, its own LLM reply and the index,
\* whatever requests were processed before it.
C14_StatelessReadOnly ==
    /\ [][index' = index]_vars
    /\ []((call.fn # "" /\ ~call.raised) => call.docs = FreshResult(call))

C14_Witness ==
    /\ prev.fn = "retrieve_relevant_dsl"
    /\ call.fn = "retrieve_relevant_dsl"
    /\ ~prev.raised
    /\ ~call.raised
    /\ prev.translated # call.translated
    /\ prev.docs # call.docs

\* C25: an English utterance is embedded and searched as given, with no
\* translation call: the retrieval cannot fail for the translation LLM, the
\* text searched is the utterance, and the list is the search's for it.
C25_EnglishSearchedAsGiven ==
    (call.fn = "retrieve_relevant_dsl" /\ call.user_query \in EnglishTexts) =>
        /\ ~call.raised
        /\ call.translated = call.user_query
        /\ call.docs = retrieve_relevant_dsl(index, call.user_query, call.k)

\* The metadata 'type' the index builder gives the documents derived from
\* the DSL of a protocol.
DerivedType(p) == IF p = Str("rest") THEN "openapi" ELSE "graphql"

\* C20: whenever the similarity search's top k holds a document derived
\* from the OpenAPI DSL, search_relevant_context(query, "rest") returns a
\* non-empty list, and likewise "graphql" for the documents derived from
\* the GraphQL DSL.
C20_ContextFoundForProtocol ==
    (/\ call.fn = "search_relevant_context"
     /\ call.protocol \in {Str("rest"), Str("graphql")}
     /\ \E j \in 1..Len(RawOf(call)) : index[RawOf(call)[j]].type = DerivedType(call.protocol))
        => call.docs # << >>

(***************************************************************************)
(* Properties of concurrent requests                                       *)
(***************************************************************************)
\* C15: whatever the interleaving of the steps of two requests served by
\* one generator on one index, what each request ends with (its Generation
\* Result, or the exception) is what generate_query gives for it run alone
\* with the same LLM replies on the same index; and no step writes the index.
C15_ResultAsIfAlone ==
    /\ [][index' = index]_vars
    /\ [](\A r \in Requests :
            reqs[r].pc \in {"done", "raised"} =>
                [raised |-> reqs[r].pc = "raised", exc |-> reqs[r].exc, result |-> reqs[r].result]
                    = generate_query(index, reqs[r].user_query, reqs[r].detect_response,
                                     reqs[r].search_failed, reqs[r].synth_response))

C15_Witness ==
    /\ \A r \in Requests : reqs[r].pc = "done"
    /\ \E r \in Requests : reqs[r].overlap
    /\ reqs[1].result.context_sources # reqs[2].result.context_sources
    /\ \A r \in Requests : reqs[r].result.context_sources # << >>

(***************************************************************************)
(* Properties of the DSL files and the index build                         *)
(***************************************************************************)
\* The list a joined string stands for: the texts between the separators,
\* the empty string standing for the empty list.
RECURSIVE Pieces(_, _)
Pieces(rest, current) ==
    IF rest = << >> THEN <<current>>
    ELSE IF Head(rest) = SEP THEN <<current>> \o Pieces(Tail(rest), << >>)
    ELSE Pieces(Tail(rest), Append(current, Head(rest)))

Recover(text) == IF text = << >> THEN << >> ELSE Pieces(text, << >>)

Joined(list) == PyStr(JoinTexts([i \in 1..Len(list) |-> PyStr(list[i])]))

IsNames(list) == \A i \in 1..Len(list) : Len(list[i]) = 1 /\ list[i][1] # SEP

\* The metadata of a chunk gives back the record's name, its variables in
\* order and its related_types.
Lossless(record, chunk) ==
    /\ chunk.metadata.name = PyStr(record.name)
    /\ chunk.metadata.variables.ty = "str"
    /\ Recover(chunk.metadata.variables.text) = record.variables
    /\ chunk.metadata.related_types.ty = "str"
    /\ Recover(chunk.metadata.related_types.text) = record.related_types

UpToDate ==
    /\ loaded.built
    /\ \A f \in Files : /\ loaded.files[f].present = dsl_dir[f].present
                         /\ loaded.files[f].record = dsl_dir[f].record

\* C19: once the index build has run again after the DSL Record set
\* changed, the collection holds exactly one document per current record:
\* every current record has its document, and no document of a removed
\* record is left.
C19_RebuiltWholesale ==
    UpToDate =>
        \A id \in Ids :
            chroma_db[id].present <=>
                \E f \in Files : dsl_dir[f].present /\ PyStr(dsl_dir[f].record.name) = id

\* The classifier's label of the protocol a source's DSL belongs to.
ProtocolOf(source) == IF source \in OpenapiFiles THEN "rest" ELSE "graphql"

\* C18: every document an index build produces carries a 'type' that is
\* "graphql" or "rest" and is the protocol of the DSL it was derived from.
C18_TypeIsClassifierLabel ==
    \A src \in Sources :
        chroma[src].copies > 0 =>
            /\ chroma[src].type \in {"graphql", "rest"}
            /\ chroma[src].type = ProtocolOf(src)

\* The text in which every occurrence of a Korean term is replaced by the
\* English term of its key (by the placeholder when the key has none) and
\* every other token stays, read from left to right.
RECURSIVE TermsInEnglish(_, _, _)
TermsInEnglish(text, ko_glossary, en_glossary) ==
    IF text = << >> THEN << >>
    ELSE LET here == {key \in DOMAIN ko_glossary :
                        /\ Len(ko_glossary[key]) <= Len(text)
                        /\ SubSeq(text, 1, Len(ko_glossary[key])) = ko_glossary[key]}
         IN IF here = {} THEN <<Head(text)>> \o TermsInEnglish(Tail(text), ko_glossary, en_glossary)
            ELSE LET key == CHOOSE k \in here : TRUE
                 IN (IF key \in DOMAIN en_glossary THEN <<en_glossary[key]>> ELSE Placeholder(key))
                    \o TermsInEnglish(SubSeq(text, Len(ko_glossary[key]) + 1, Len(text)),
                                      ko_glossary, en_glossary)

\* No two occurrences of terms share a token of the text.
Apart(text, ko_glossary) ==
    \A m, n \in Matches(text, ko_glossary) : m = n \/ m.end < n.start \/ n.end < m.start

\* C29: restore_terms(replace_terms(text)) is the text with every occurrence
\* of a Korean glossary term replaced by the English term of the same key,
\* all other tokens unchanged; a placeholder whose key has no English entry
\* stays as it is.  Stated for the texts whose term occurrences lie apart.
C29_RoundTrip ==
    (terms.pc \in {"preprocessed", "postprocessed"} /\ Apart(terms.text, terms.ko_glossary)) =>
        restore_terms(terms.preprocessed, terms.en_glossary)
            = TermsInEnglish(terms.text, terms.ko_glossary, terms.en_glossary)

\* The pieces of replace_terms that cover position p of the input.
Covering(p) == {i \in 1..Len(terms.pieces) : terms.pieces[i].from <= p /\ p <= terms.pieces[i].to}

\* C30: replace_terms conserves its input: every position of the text is
\* covered by exactly one piece of the output, a copy or one placeholder,
\* and the pieces follow the order of the text.
C30_InputConserved ==
    terms.pc \in {"preprocessed", "postprocessed"} =>
        /\ \A p \in 1..Len(terms.text) : Cardinality(Covering(p)) = 1
        /\ \A i, j \in 1..Len(terms.pieces) :
              (i < j /\ terms.pieces[i].from <= terms.pieces[i].to
                     /\ terms.pieces[j].from <= terms.pieces[j].to)
                  => terms.pieces[i].to < terms.pieces[j].from

\* C28: within one top-level call of extract_type_definition every type
\* name is expanded at most once, also when the types of the schema refer
\* to themselves or to each other.
C28_ExpandedAtMostOnce ==
    \A t \in Types : ext.expanded[t] <= 1

C23_JsonAndMarkdownWritten ==
    Len(openapi_dir.operations) > 0 =>
        /\ OpenapiNames.openapi_dsl_json.name \in openapi_dir.files
        /\ glob(openapi_dir.files, "operations", "md") # {}

(***************************************************************************)
(* Properties of configuration                                             *)
(***************************************************************************)
\* C16: when no API key is to be found in the settings or the environment,
\* the failure happens at start-up: no request is accepted and then fails
\* in the middle for the missing key, and no generator is constructed.
C16_MissingKeyFailsAtStartup ==
    MissingKey(srv) =>
        /\ srv.ask # "raised"
        /\ srv.cli # "generator"

\* C21: a POST /ask whose configuration is whole hands the question to the
\* synthesizer as the user utterance, with the retrieved context and the
\* LLM handle, and answers unless an upstream service fails.
C21_AskDataFlow ==
    /\ srv.user_input # "" => srv.user_input = "question"
    /\ srv.ask = "raised" =>
          srv.exc \in {"FileNotFoundError", "KeyError", "ValidationError", "UpstreamError"}

\* C22: a returned result reflects its own request: user_query is the
\* utterance the request sent to the classifier, detected_protocol,
\* confidence and reasoning are those of the classification of this
\* request's reply, generated_query is the synthesizer's output, and
\* context_sources has one entry per retrieved document, in retrieval order.
C22_ResultReflectsRequest ==
    pc = "done" =>
        LET classified == detect_protocol(detect_response).val
            retrieved == search_relevant_context(index, user_query,
                                                 classified.items["protocol"], DefaultK)
        IN /\ DOMAIN result = {"user_query", "detected_protocol", "confidence", "reasoning",
                               "generated_query", "context_sources"}
           /\ result.user_query = llm_calls[1].user_query
           /\ result.detected_protocol = classified.items["protocol"]
           /\ result.confidence = classified.items["confidence"]
           /\ result.reasoning = classified.items["reasoning"]
           /\ result.generated_query = generated_query
           /\ Len(result.context_sources) = Len(retrieved)
           /\ \A j \in 1..Len(retrieved) : result.context_sources[j].source = retrieved[j]

C22_Witness ==
    /\ pc = "done"
    /\ Len(result.context_sources) >= 2
    /\ result.context_sources[1].source # result.context_sources[2].source
    /\ result.confidence # Num(FallbackConfidence)

\* The number of results of generate_api_call's search tagged with a type.
Tagged(type) == Cardinality({j \in 1..Len(relevant_apis) : index[relevant_apis[j]].type = type})

\* C26: detect_api_type is a majority vote over the search results, a tie
\* going to the type of the first result; within generate_api_call it never
\* meets an empty list, and a returned call's type is 'graphql' or 'openapi'.
C26_MajorityVote ==
    /\ apc = "detected" =>
          /\ relevant_apis # << >>
          /\ Tagged("graphql") > Tagged("openapi") => api_type = "graphql"
          /\ Tagged("openapi") > Tagged("graphql") => api_type = "openapi"
          /\ Tagged("graphql") = Tagged("openapi") => api_type = index[relevant_apis[1]].type
    /\ apc = "raised" => api_exc # "IndexError"
    /\ (apc = "done" /\ relevant_apis # << >>) => api_result.kind \in {"graphql", "openapi"}

C26_Witness ==
    /\ apc = "done"
    /\ Tagged("graphql") = Tagged("openapi")
    /\ Tagged("graphql") > 0
    /\ api_type = "openapi"
    /\ api_result.kind = "openapi"

\* C27: within one request the protocol of the retrieval filter, the
\* template of the synthesis prompt and the detected_protocol of the result
\* are one value, the label of this request's classification: the GraphQL
\* template is used exactly when the label is "graphql", the REST template
\* for every other label.
C27_OneProtocolPerRequest ==
    pc \in {"synthesize", "done"} =>
        LET label == detect_protocol(detect_response).val.items["protocol"]
            synthesis == llm_calls[Len(llm_calls)]
        IN /\ context_docs = search_relevant_context(index, user_query, label, DefaultK)
           /\ \A j \in 1..Len(context_docs) : Str(index[context_docs[j]].type) = label
           /\ synthesis.template \in {"graphql", "rest"}
           /\ synthesis.template = "graphql" <=> label = Str("graphql")
           /\ pc = "done" => result.detected_protocol = label

C27_Witness ==
    /\ pc = "done"
    /\ result.detected_protocol = Str("openapi")
    /\ context_docs # << >>
    /\ llm_calls[Len(llm_calls)].template = "rest"

(***************************************************************************)
(* Properties of the synthesizers                                          *)
(***************************************************************************)
\* C4: for every reply text of the LLM, the REST synthesizer returns an
\* object that holds a method and a url, or an error key together with the
\* reply text.
C4_RestRequestShape ==
    (apc = "done" /\ api_result.kind = "openapi" /\ llm_ready /\ ~api_response.failed) =>
        /\ api_result.request.ty = "dict"
        /\ \/ {"method", "url"} \subseteq api_result.request.keys
           \/ /\ "error" \in api_result.request.keys
              /\ api_result.request.raw = strip(api_response.content)

\* C9: an upstream failure of the LLM call during synthesis ends the
\* invocation with the exception; nothing is returned for it.
C9_UpstreamFailurePropagates ==
    /\ (llm_ready /\ api_response.failed) => apc # "done"
    /\ synth_response.failed => pc = "raised"

====
